---- MODULE Spec2Model ----
(***************************************************************************)
(* Model of the MediMind backend (src/app.py): the Flask handlers /upload, *)
(* /ask, /summarize and /flashcards together with the collaborators they   *)
(* call (parser, chunker, embedder, vector index, answer generator).       *)
(*                                                                         *)
(* Strings are sequences of one-character strings.  JSON / Python values   *)
(* are tagged records [t, v]:                                              *)
(*   "null" (None), "str" (v a string), "num" (v an integer),              *)
(*   "arr" (v a sequence of values), "obj" (v a function key -> value),    *)
(*   "const" (a float constant of Python's decoder, v its spelling),       *)
(*   "absent" (the key is not in the request body at all),                 *)
(*   "file" (an uploaded FileStorage, v = [filename, pages]).              *)
(***************************************************************************)
EXTENDS Integers, Sequences, FiniteSets, TLC

(* ------------------------------ bounds -------------------------------- *)
\* longest free-form generator text that is enumerated character by character
MaxRespLen == 2
\* number of /upload requests over a run (one generated document id each)
MaxUploads == 2

(* ------------------------- Python string helpers ---------------------- *)
NL == "\n"
\* the characters str.strip() removes, restricted to the model's alphabet
Whitespace == {" ", NL}

RECURSIVE LStrip(_)
LStrip(s) ==
    IF s # <<>> /\ Head(s) \in Whitespace THEN LStrip(Tail(s)) ELSE s

RECURSIVE RStrip(_)
RStrip(s) ==
    IF s # <<>> /\ s[Len(s)] \in Whitespace
    THEN RStrip(SubSeq(s, 1, Len(s) - 1)) ELSE s

\* str.strip()
Strip(s) == RStrip(LStrip(s))

\* str.split(sep) for a one-character separator: always at least one piece
RECURSIVE Split(_, _)
Split(s, sep) ==
    IF \A i \in 1..Len(s) : s[i] # sep THEN <<s>>
    ELSE LET i == CHOOSE j \in 1..Len(s) :
                     s[j] = sep /\ \A k \in 1..(j - 1) : s[k] # sep
         IN  <<SubSeq(s, 1, i - 1)>> \o Split(SubSeq(s, i + 1, Len(s)), sep)

\* `c in s`
Contains(s, c) == \E i \in 1..Len(s) : s[i] = c

\* str.lower() on the model's alphabet
LowerChar(c) ==
    CASE c = "P" -> "p" [] c = "D" -> "d" [] c = "F" -> "f"
      [] c = "M" -> "m" [] c = "T" -> "t" [] c = "X" -> "x"
      [] OTHER -> c
Lower(s) == [i \in 1..Len(s) |-> LowerChar(s[i])]

\* str(n) for a natural number
DigitChar(d) ==
    CASE d = 0 -> "0" [] d = 1 -> "1" [] d = 2 -> "2" [] d = 3 -> "3"
      [] d = 4 -> "4" [] d = 5 -> "5" [] d = 6 -> "6" [] d = 7 -> "7"
      [] d = 8 -> "8" [] d = 9 -> "9"
RECURSIVE StrOfNat(_)
StrOfNat(n) ==
    IF n < 10 THEN <<DigitChar(n)>>
    ELSE StrOfNat(n \div 10) \o <<DigitChar(n % 10)>>

Digits == {"0", "1", "2", "3", "4", "5", "6", "7", "8", "9"}
DigitVal(c) == CHOOSE d \in 0..9 : DigitChar(d) = c

(* ------------------------------ values -------------------------------- *)
None == [t |-> "null", v |-> <<>>]
ABSENT == [t |-> "absent", v |-> <<>>]
Str(s) == [t |-> "str", v |-> s]
Num(n) == [t |-> "num", v |-> n]
Arr(a) == [t |-> "arr", v |-> a]
Const(name) == [t |-> "const", v |-> name]
Obj(f) == [t |-> "obj", v |-> f]

\* dict.get(key, default)
Get(body, key, default) ==
    IF body[key].t = "absent" THEN default ELSE body[key]

\* Python truthiness (`not x` is ~Truthy(x))
Truthy(x) ==
    CASE x.t = "null" -> FALSE
      [] x.t = "str" -> x.v # <<>>
      [] x.t = "num" -> x.v # 0
      [] x.t = "arr" -> x.v # <<>>
      [] x.t = "obj" -> DOMAIN x.v # {}
      [] x.t = "file" -> x.v.filename # <<>>
      [] OTHER -> FALSE

(* ----------------------------- json.loads ----------------------------- *)
\* The decoder on the grammar the model's alphabet can spell: whitespace,
\* strings without escapes, non-negative integers, null, arrays, objects,
\* and the constants NaN and Infinity, which Python's decoder accepts
\* though they are not JSON.
Fail == [ok |-> FALSE, v |-> None, i |-> 0]
Ok(val, next) == [ok |-> TRUE, v |-> val, i |-> next]

RECURSIVE SkipWs(_, _)
SkipWs(s, i) ==
    IF i <= Len(s) /\ s[i] \in Whitespace THEN SkipWs(s, i + 1) ELSE i

At(s, i, c) == i <= Len(s) /\ s[i] = c

\* s[i] is the opening quote; control characters end the parse with an error
ParseString(s, i) ==
    IF \A j \in (i + 1)..Len(s) : s[j] # "\""
    THEN Fail
    ELSE LET j == CHOOSE k \in (i + 1)..Len(s) :
                      s[k] = "\"" /\ \A m \in (i + 1)..(k - 1) : s[m] # "\""
             body == SubSeq(s, i + 1, j - 1)
         IN  IF Contains(body, NL) THEN Fail ELSE Ok(Str(body), j + 1)

RECURSIVE DigitRun(_, _)
DigitRun(s, i) ==
    IF i <= Len(s) /\ s[i] \in Digits THEN DigitRun(s, i + 1) ELSE i

RECURSIVE NatOfStr(_)
NatOfStr(s) ==
    IF s = <<>> THEN 0
    ELSE 10 * NatOfStr(SubSeq(s, 1, Len(s) - 1)) + DigitVal(s[Len(s)])

\* s[i] is a digit; a leading 0 is a number on its own
ParseNumber(s, i) ==
    IF s[i] = "0" THEN Ok(Num(0), i + 1)
    ELSE LET j == DigitRun(s, i)
         IN  Ok(Num(NatOfStr(SubSeq(s, i, j - 1))), j)

SetKey(f, k, val) ==
    [x \in (DOMAIN f) \cup {k} |-> IF x = k THEN val ELSE f[x]]

LitNull == <<"n", "u", "l", "l">>
LitNaN == <<"N", "a", "N">>
LitInfinity == <<"I", "n", "f", "i", "n", "i", "t", "y">>
\* the text at s[i] starts with lit
StartsWith(s, i, lit) ==
    i + Len(lit) - 1 <= Len(s) /\ SubSeq(s, i, i + Len(lit) - 1) = lit

RECURSIVE ParseValue(_, _)
RECURSIVE ParseElems(_, _, _)
RECURSIVE ParseMembers(_, _, _)

ParseValue(s, i) ==
    IF i > Len(s) THEN Fail
    ELSE IF s[i] = "\"" THEN ParseString(s, i)
    ELSE IF s[i] \in Digits THEN ParseNumber(s, i)
    ELSE IF StartsWith(s, i, LitNull) THEN Ok(None, i + 4)
    ELSE IF StartsWith(s, i, LitNaN) THEN Ok(Const("NaN"), i + 3)
    ELSE IF StartsWith(s, i, LitInfinity) THEN Ok(Const("Infinity"), i + 8)
    ELSE IF s[i] = "["
         THEN LET j == SkipWs(s, i + 1)
              IN  IF At(s, j, "]") THEN Ok(Arr(<<>>), j + 1)
                  ELSE ParseElems(s, j, <<>>)
    ELSE IF s[i] = "{"
         THEN LET j == SkipWs(s, i + 1)
              IN  IF At(s, j, "}") THEN Ok(Obj(<<>>), j + 1)
                  ELSE ParseMembers(s, j, <<>>)
    ELSE Fail

ParseElems(s, i, acc) ==
    LET r == ParseValue(s, i)
        j == SkipWs(s, r.i)
    IN  IF ~r.ok THEN Fail
        ELSE IF At(s, j, ",") THEN ParseElems(s, SkipWs(s, j + 1), Append(acc, r.v))
        ELSE IF At(s, j, "]") THEN Ok(Arr(Append(acc, r.v)), j + 1)
        ELSE Fail

ParseMembers(s, i, f) ==
    IF ~At(s, i, "\"") THEN Fail
    ELSE LET k == ParseString(s, i)
             c == SkipWs(s, k.i)
             r == ParseValue(s, SkipWs(s, c + 1))
             j == SkipWs(s, r.i)
         IN  IF ~k.ok \/ ~At(s, c, ":") THEN Fail
             ELSE IF ~r.ok THEN Fail
             ELSE IF At(s, j, ",")
                  THEN ParseMembers(s, SkipWs(s, j + 1), SetKey(f, k.v.v, r.v))
             ELSE IF At(s, j, "}") THEN Ok(Obj(SetKey(f, k.v.v, r.v)), j + 1)
             ELSE Fail

\* json.loads(text): ok = FALSE stands for the JSONDecodeError it raises
JsonLoads(s) ==
    LET r == ParseValue(s, SkipWs(s, 1))
    IN  IF r.ok /\ SkipWs(s, r.i) = Len(s) + 1 THEN r ELSE Fail

(* ------------------------- filenames and paths ------------------------ *)
\* characters werkzeug's secure_filename keeps ([A-Za-z0-9_.-])
SafeChars ==
    {"n", "p", "d", "f", "m", "t", "x", "e", "P", "D", "F", "M", "T", "X",
     "_", ".", "-"} \cup Digits

RECURSIVE Words(_)
\* str.split(): the pieces between runs of whitespace, none of them empty
Words(s) ==
    LET t == LStrip(s)
    IN  IF t = <<>> THEN <<>>
        ELSE IF \A i \in 1..Len(t) : t[i] \notin Whitespace THEN <<t>>
        ELSE LET i == CHOOSE j \in 1..Len(t) :
                        t[j] \in Whitespace /\ \A k \in 1..(j - 1) : t[k] \notin Whitespace
             IN  <<SubSeq(t, 1, i - 1)>> \o Words(SubSeq(t, i + 1, Len(t)))

RECURSIVE Join(_, _)
\* sep.join(parts)
Join(parts, sep) ==
    IF parts = <<>> THEN <<>>
    ELSE IF Len(parts) = 1 THEN parts[1]
    ELSE parts[1] \o sep \o Join(Tail(parts), sep)

RECURSIVE StripChars(_, _)
\* str.strip(chars)
StripChars(s, chars) ==
    IF s # <<>> /\ Head(s) \in chars THEN StripChars(Tail(s), chars)
    ELSE IF s # <<>> /\ s[Len(s)] \in chars
         THEN StripChars(SubSeq(s, 1, Len(s) - 1), chars)
    ELSE s

\* werkzeug.utils.secure_filename: path separators become spaces, whitespace
\* runs become "_", unsafe characters are dropped, leading and trailing
\* "." and "_" are stripped
secure_filename(name) ==
    LET spaced == [i \in 1..Len(name) |-> IF name[i] = "/" THEN " " ELSE name[i]]
        joined == Join(Words(spaced), <<"_">>)
        kept   == SelectSeq(joined, LAMBDA c : c \in SafeChars)
    IN  StripChars(kept, {".", "_"})

\* index of the last occurrence of c in s, 0 if there is none (rfind + 1)
RFind(s, c) ==
    IF Contains(s, c)
    THEN CHOOSE i \in 1..Len(s) : s[i] = c /\ \A k \in (i + 1)..Len(s) : s[k] # c
    ELSE 0

\* os.path.splitext(p)[1]: from the last dot of the last path component,
\* unless only dots precede it in that component
SplitextExt(path) ==
    LET sep == RFind(path, "/")
        dot == RFind(path, ".")
    IN  IF dot > sep /\ \E k \in (sep + 1)..(dot - 1) : path[k] # "."
        THEN SubSeq(path, dot, Len(path))
        ELSE <<>>

ALLOWED_EXT ==
    { <<".", "p", "d", "f">>, <<".", "d", "o", "c", "x">>,
      <<".", "t", "x", "t">>, <<".", "m", "d">> }

_allowed(filename) == Lower(SplitextExt(filename)) \in ALLOWED_EXT

UPLOAD_DIR == <<"d", "/">>

\* str(uuid.uuid4()): fixed-width, one per call, never repeated
Uuid(n) == <<"u", DigitChar(n \div 10), DigitChar(n % 10)>>

\* os.path.join(UPLOAD_DIR, f"{file_id}_{filename}")
SavedPath(file_id, filename) == UPLOAD_DIR \o file_id \o <<"_">> \o filename

(* ------------------------------ collaborators ------------------------- *)
\* A page text is known by its page number and length; a piece of it is the
\* slice [lo, hi) of that page.
PageText(page, len) == [page |-> page, lo |-> 0, hi |-> len]
TextLen(text) == text.hi - text.lo
\* text[:n]
Truncate(text, n) ==
    [text EXCEPT !.hi = IF TextLen(text) > n THEN text.lo + n ELSE text.hi]

RECURSIVE SplitFrom(_, _, _, _, _)
SplitFrom(text, start, chunk_size, chunk_overlap, idx) ==
    IF start >= text.hi THEN <<>>
    ELSE LET end == IF start + chunk_size < text.hi THEN start + chunk_size ELSE text.hi
             piece == <<idx, [text EXCEPT !.lo = start, !.hi = end]>>
         IN  IF end = text.hi THEN <<piece>>
             ELSE <<piece>> \o SplitFrom(text, end - chunk_overlap, chunk_size,
                                         chunk_overlap, idx + 1)

\* services.text_splitter.split_text: (local index, text) pairs, each at most
\* chunk_size long, consecutive ones overlapping by chunk_overlap
split_text(page_text, chunk_size, chunk_overlap) ==
    SplitFrom(page_text, page_text.lo, chunk_size, chunk_overlap, 0)

\* dimension of the stub embedding space
NumVectors == 3
\* services.embeddings.embed_texts with a fixed stub: one vector per text,
\* in input order
embed_texts(texts, task_type) ==
    [i \in 1..Len(texts) |->
        IF task_type = "retrieval_document"
        THEN (texts[i].page + texts[i].lo \div 800) % NumVectors
        ELSE Len(texts[i]) % NumVectors]

\* index.upsert(vectors, namespace): a record replaces the one with its id
IndexUpsert(idx, vectors, namespace) ==
    LET ids == {vectors[i].id : i \in 1..Len(vectors)}
    IN  {r \in idx : ~(r.namespace = namespace /\ r.id \in ids)}
        \cup {[namespace |-> namespace, id |-> vectors[i].id,
               values |-> vectors[i].values, metadata |-> vectors[i].metadata] :
              i \in 1..Len(vectors)}

(* -------------------------------- state ------------------------------- *)
VARIABLES
    index,      \* the vector index: records [namespace, id, values, metadata]
    disk,       \* paths written under UPLOAD_DIR
    nextId,     \* how many document ids uuid4 has produced
    up,         \* per worker: the /upload request it is handling
    last,       \* the latest /ask, /summarize, /flashcards or /health exchange
    uploads     \* history: per generated document id, what its upload did

vars == <<index, disk, nextId, up, last, uploads>>

Procs == {1, 2}

HtmlError == [html |-> "Internal Server Error"]

IdleUpload ==
    [pc |-> "idle", req |-> [student_id |-> None, file |-> None],
     student_id |-> <<>>, filename |-> <<>>, file_id |-> <<>>,
     saved_path |-> <<>>, pages |-> <<>>, page_no |-> 0,
     vectors_to_upsert |-> <<>>, chunk_counter |-> 0, calls |-> <<>>,
     status |-> 0, body |-> <<>>]

NoExchange ==
    [endpoint |-> "none", req |-> <<>>, matches |-> <<>>, ctx |-> <<>>,
     gen |-> [called |-> FALSE, ok |-> FALSE, text |-> <<>>], calls |-> <<>>,
     status |-> 0, body |-> <<>>]

Init ==
    /\ index = {}
    /\ disk = {}
    /\ nextId = 0
    /\ up = [p \in Procs |-> IdleUpload]
    /\ last = NoExchange
    /\ uploads = <<>>

(* ------------------------------- /upload ------------------------------ *)
\* the record numbered by the chunk's index within its page
UpsertRecordLocalIndex(file_id, filename, chunk_id, chunk_counter, text, vec) ==
    [id |-> file_id \o <<"-">> \o StrOfNat(chunk_id),
     values |-> vec,
     metadata |-> [doc_id |-> file_id, filename |-> filename,
                   chunk_id |-> chunk_id, text |-> Truncate(text, 1200)]]

\* the record identified by the chunk counter alone
UpsertRecordSharedIds(file_id, filename, chunk_id, chunk_counter, text, vec) ==
    [id |-> StrOfNat(chunk_counter),
     values |-> vec,
     metadata |-> [doc_id |-> file_id, filename |-> filename,
                   chunk_id |-> chunk_counter, text |-> Truncate(text, 1200)]]

\* the record built for one chunk (app.py lines 61-70)
UpsertRecord(file_id, filename, chunk_id, chunk_counter, text, vec) ==
    [id |-> file_id \o <<"-">> \o StrOfNat(chunk_counter),
     values |-> vec,
     metadata |-> [doc_id |-> file_id, filename |-> filename,
                   chunk_id |-> chunk_counter, text |-> Truncate(text, 1200)]]

RECURSIVE AccumulatePage(_, _, _, _, _, _)
\* for (chunk_id, text), vec in zip(page_chunks, vectors): append, count
AccumulatePage(file_id, filename, page_chunks, vectors, vectors_to_upsert, chunk_counter) ==
    IF page_chunks = <<>> \/ vectors = <<>>
    THEN [vectors_to_upsert |-> vectors_to_upsert, chunk_counter |-> chunk_counter]
    ELSE AccumulatePage(file_id, filename, Tail(page_chunks), Tail(vectors),
             Append(vectors_to_upsert,
                    UpsertRecord(file_id, filename, Head(page_chunks)[1],
                                 chunk_counter, Head(page_chunks)[2], Head(vectors))),
             chunk_counter + 1)

\* lines 41-52: validation, the generated id, the save, the empty batch
uploadBegin(p, student_id, f) ==
    /\ up[p].pc # "pages"
    /\ nextId < MaxUploads
    /\ LET req == [student_id |-> student_id, file |-> f]
       IN  IF ~Truthy(student_id) \/ ~Truthy(f)
           THEN /\ up' = [up EXCEPT ![p] =
                      [IdleUpload EXCEPT !.pc = "done", !.req = req, !.status = 400,
                          !.body = [error |-> "student_id and file are required"]]]
                /\ UNCHANGED <<index, disk, nextId, last, uploads>>
           ELSE LET filename == secure_filename(f.v.filename)
                    file_id == Uuid(nextId + 1)
                    saved_path == SavedPath(file_id, filename)
                IN  /\ nextId' = nextId + 1
                    /\ disk' = disk \cup {saved_path}
                    /\ up' = [up EXCEPT ![p] =
                          [IdleUpload EXCEPT !.pc = "pages", !.req = req,
                              !.student_id = student_id.v, !.filename = filename,
                              !.file_id = file_id, !.saved_path = saved_path,
                              !.pages = f.v.pages, !.page_no = 0,
                              !.calls = <<"save">>]]
                    /\ uploads' = Append(uploads,
                          [file_id |-> file_id, namespace |-> student_id.v,
                           filename |-> filename, saved_path |-> saved_path,
                           overlapped |-> \E q \in Procs : up[q].pc = "pages",
                           outcome |-> "running", chunks |-> <<>>,
                           records |-> <<>>])
                    /\ UNCHANGED <<index, last>>

FileNo(p) == CHOOSE n \in 1..Len(uploads) : uploads[n].file_id = up[p].file_id

\* an exception leaves the handler: Flask answers 500 with its own page
UploadAborted(p, calls) ==
    /\ up' = [up EXCEPT ![p].pc = "done", ![p].calls = calls,
                        ![p].status = 500, ![p].body = HtmlError]
    /\ uploads' = [uploads EXCEPT ![FileNo(p)].outcome = "aborted"]

\* lines 56-71 for the next page: split, embed, append to the batch
PageBatch(p) ==
    LET page_text == PageText(up[p].page_no + 1, Head(up[p].pages))
        page_chunks == split_text(page_text, 1000, 200)
        texts == [i \in 1..Len(page_chunks) |-> page_chunks[i][2]]
        vectors == embed_texts(texts, "retrieval_document")
        acc == AccumulatePage(up[p].file_id, up[p].filename, page_chunks, vectors,
                              up[p].vectors_to_upsert, up[p].chunk_counter)
    IN  [texts |-> texts, vectors_to_upsert |-> acc.vectors_to_upsert,
         chunk_counter |-> acc.chunk_counter]

PageAccumulated(p) ==
    /\ up' = [up EXCEPT ![p].pages = Tail(up[p].pages),
                        ![p].page_no = up[p].page_no + 1,
                        ![p].vectors_to_upsert = PageBatch(p).vectors_to_upsert,
                        ![p].chunk_counter = PageBatch(p).chunk_counter,
                        ![p].calls = up[p].calls \o <<"parser", "embedder">>]
    /\ uploads' = [uploads EXCEPT ![FileNo(p)].chunks =
                      uploads[FileNo(p)].chunks \o PageBatch(p).texts]

\* a page loop that writes each page's batch to the index as it goes
uploadPageEager(p, outcome) ==
    /\ up[p].pc = "pages"
    /\ IF outcome = "parser_fails"
       THEN UploadAborted(p, Append(up[p].calls, "parser")) /\ UNCHANGED index
       ELSE /\ up[p].pages # <<>>
            /\ IF outcome = "embed_fails"
               THEN /\ UploadAborted(p, up[p].calls \o <<"parser", "embedder">>)
                    /\ UNCHANGED index
               ELSE /\ PageAccumulated(p)
                    /\ index' = IndexUpsert(index, PageBatch(p).vectors_to_upsert,
                                            up[p].student_id)
    /\ UNCHANGED <<disk, nextId, last>>

\* lines 55-71, one turn of the page loop.  The parser is asked for the next
\* page and may raise; the page is split; its chunks are embedded in one call,
\* which may raise; the chunks are appended to the batch.  The index is not
\* touched.
uploadPage(p, outcome) ==
    /\ up[p].pc = "pages"
    /\ IF outcome = "parser_fails"
       THEN UploadAborted(p, Append(up[p].calls, "parser"))
       ELSE /\ up[p].pages # <<>>
            /\ IF outcome = "embed_fails"
               THEN UploadAborted(p, up[p].calls \o <<"parser", "embedder">>)
               ELSE PageAccumulated(p)
    /\ UNCHANGED <<index, disk, nextId, last>>

\* lines 73-82: the parser is exhausted; one upsert if the batch is not
\* empty; the 200 response
uploadFinish(p) ==
    /\ up[p].pc = "pages"
    /\ up[p].pages = <<>>
    /\ LET batch == up[p].vectors_to_upsert
       IN  /\ index' = IF batch # <<>>
                       THEN IndexUpsert(index, batch, up[p].student_id)
                       ELSE index
           /\ up' = [up EXCEPT ![p].pc = "done",
                        ![p].calls = IF batch # <<>>
                                     THEN up[p].calls \o <<"parser", "upsert">>
                                     ELSE Append(up[p].calls, "parser"),
                        ![p].status = 200,
                        ![p].body = [ok |-> TRUE, doc_id |-> up[p].file_id,
                                     num_chunks |-> up[p].chunk_counter,
                                     filename |-> up[p].filename]]
           /\ uploads' = [uploads EXCEPT ![FileNo(p)].outcome = "done",
                                         ![FileNo(p)].records = batch]
    /\ UNCHANGED <<disk, nextId, last>>

(* --------------------------- query-time helpers ----------------------- *)
\* most matches the stub index hands back for one query
MaxMatches == 2

\* int(x): [ok, v]; ok = FALSE stands for the TypeError / ValueError raised
PyInt(x) ==
    CASE x.t = "num" -> [ok |-> TRUE, v |-> x.v]
      [] x.t = "str" ->
            LET d == Strip(x.v)
            IN  IF d # <<>> /\ \A i \in 1..Len(d) : d[i] \in Digits
                THEN [ok |-> TRUE, v |-> NatOfStr(d)]
                ELSE [ok |-> FALSE, v |-> 0]
      [] OTHER -> [ok |-> FALSE, v |-> 0]

Min(a, b) == IF a < b THEN a ELSE b
Abs(a) == IF a < 0 THEN 0 - a ELSE a

\* similarity of a stored vector to the query vector, larger is closer
Score(qvec, values) == NumVectors - Abs(qvec - values)

\* services.retriever.query_chunks with the stub embedder and index: the
\* results it may return, each a sequence of at most top_k distinct records
\* of the namespace, closest first, with their metadata and score
query_chunks(idx, student_id, query, top_k) ==
    LET qvec == embed_texts(<<query>>, "retrieval_query")[1]
        inNs == {r \in idx : r.namespace = student_id}
        hits == {[id |-> r.id, score |-> Score(qvec, r.values),
                  metadata |-> r.metadata] : r \in inNs}
        limit == Min(IF top_k < 0 THEN 0 ELSE top_k, MaxMatches)
    IN  {[matches |-> m] : m \in UNION {
            {s \in [1..k -> hits] :
                \A i, j \in 1..k : i < j => (s[i] # s[j] /\ s[i].score >= s[j].score)} :
            k \in 0..limit}}

\* f"[chunk {chunk_id} from {filename}] {text}" for every match
ContextBlocks(matches) ==
    [i \in 1..Len(matches) |->
        [chunk |-> matches[i].metadata.chunk_id,
         from |-> matches[i].metadata.filename,
         text |-> matches[i].metadata.text]]

\* a citation that names the vector instead of the document
CitationFromVectorId(m) ==
    [doc_id |-> m.id, filename |-> m.metadata.filename,
     chunk_id |-> m.metadata.chunk_id, score |-> m.score]

\* lines 127-132
Citation(m) ==
    [doc_id |-> m.metadata.doc_id, filename |-> m.metadata.filename,
     chunk_id |-> m.metadata.chunk_id, score |-> m.score]
Citations(matches) == [i \in 1..Len(matches) |-> Citation(matches[i])]

\* one request/response exchange: the request body, what the index returned,
\* the context and the text exchanged with the generator, the collaborators
\* called, and the HTTP status and body
Exchange(endpoint, req, matches, ctx, gen, calls, status, body) ==
    [body |-> body, req |-> req, calls |-> calls, status |-> status,
     endpoint |-> endpoint, matches |-> matches, ctx |-> ctx, gen |-> gen]

\* what answer_with_context does: it returns a text or raises
Returns(text) == [ok |-> TRUE, text |-> text, called |-> TRUE]
Raises == [ok |-> FALSE, text |-> <<>>, called |-> TRUE]
NotCalled == [ok |-> FALSE, text |-> <<>>, called |-> FALSE]

\* the fixed texts of lines 110 and 163, each a text of one piece
NOT_FOUND_ANSWER == <<"I couldn't find this in your notes.">>
NO_NOTES_SUMMARY == <<"No relevant notes found to summarize.">>

(* -------------------------------- /ask -------------------------------- *)
\* lines 96-99 (and 151-154, 189-192): the fields read from the body.
\* raised = TRUE when .strip() meets a non-string or int() raises.
ReadBody(body, key, text_default, default_top_k) ==
    LET raw == Get(body, key, text_default)
        top_k == PyInt(Get(body, "top_k", Num(default_top_k)))
    IN  [raised |-> raw.t # "str" \/ ~top_k.ok,
         student_id |-> Get(body, "student_id", None),
         text |-> IF raw.t = "str" THEN Str(Strip(raw.v)) ELSE Str(<<>>),
         top_k |-> top_k.v]

\* the response built without the early return of lines 108-112
AskAnswerAlwaysGenerates(body, result, answer) ==
    LET matches == result.matches
    IN  IF ~answer.ok
        THEN Exchange("ask", body, matches, ContextBlocks(matches), answer,
                 <<"embedder", "index", "generator">>, 500, HtmlError)
        ELSE Exchange("ask", body, matches, ContextBlocks(matches), answer,
                 <<"embedder", "index", "generator">>, 200,
                 [answer |-> answer.text, context_used |-> Citations(matches)])

\* lines 106-137: the response built from the index's result
AskAnswer(body, result, answer) ==
    LET matches == result.matches
    IN  IF matches = <<>>
        THEN Exchange("ask", body, matches, <<>>, NotCalled, <<"embedder", "index">>,
                 200, [answer |-> NOT_FOUND_ANSWER, context_used |-> <<>>])
        ELSE IF ~answer.ok
        THEN Exchange("ask", body, matches, ContextBlocks(matches), answer,
                 <<"embedder", "index", "generator">>, 500, HtmlError)
        ELSE Exchange("ask", body, matches, ContextBlocks(matches), answer,
                 <<"embedder", "index", "generator">>, 200,
                 [answer |-> answer.text, context_used |-> Citations(matches)])

ask(body, answer) ==
    /\ LET r == ReadBody(body, "question", Str(<<>>), 6)
       IN  IF r.raised
           THEN last' = Exchange("ask", body, <<>>, <<>>, NotCalled, <<>>, 500, HtmlError)
           ELSE IF ~Truthy(r.student_id) \/ ~Truthy(r.text)
           THEN last' = Exchange("ask", body, <<>>, <<>>, NotCalled, <<>>, 400,
                            [error |-> "student_id and question are required"])
           ELSE \E result \in query_chunks(index, r.student_id.v, r.text.v, r.top_k) :
                    last' = AskAnswer(body, result, answer)
    /\ UNCHANGED <<index, disk, nextId, up, uploads>>

(* ----------------------------- /summarize ----------------------------- *)
\* lines 160-182
SummarizeAnswer(body, topic, result, summary) ==
    LET matches == result.matches
    IN  IF matches = <<>>
        THEN Exchange("summarize", body, matches, <<>>, NotCalled,
                 <<"embedder", "index">>, 200, [summary |-> NO_NOTES_SUMMARY])
        ELSE IF ~summary.ok
        THEN Exchange("summarize", body, matches, ContextBlocks(matches), summary,
                 <<"embedder", "index", "generator">>, 500, HtmlError)
        ELSE Exchange("summarize", body, matches, ContextBlocks(matches),
                 summary, <<"embedder", "index", "generator">>, 200,
                 [topic |-> topic, summary |-> summary.text])

summarize(body, summary) ==
    /\ LET r == ReadBody(body, "topic", Str(<<>>), 12)
       IN  IF r.raised
           THEN last' = Exchange("summarize", body, <<>>, <<>>, NotCalled, <<>>, 500, HtmlError)
           ELSE IF ~Truthy(r.student_id) \/ ~Truthy(r.text)
           THEN last' = Exchange("summarize", body, <<>>, <<>>, NotCalled, <<>>, 400,
                            [error |-> "student_id and topic are required"])
           ELSE \E result \in query_chunks(index, r.student_id.v, r.text.v, r.top_k) :
                    last' = SummarizeAnswer(body, r.text.v, result, summary)
    /\ UNCHANGED <<index, disk, nextId, up, uploads>>

(* ----------------------------- /flashcards ---------------------------- *)
KeyQuestion == <<"q", "u", "e", "s", "t", "i", "o", "n">>
KeyAnswer == <<"a", "n", "s", "w", "e", "r">>

\* {"question": q, "answer": a}
Card(q, a) == Obj(SetKey(SetKey(<<>>, KeyQuestion, Str(q)), KeyAnswer, Str(a)))

RECURSIVE LineScan(_)
\* lines 224-227: every line with a question mark becomes a card
LineScan(lines) ==
    IF lines = <<>> THEN <<>>
    ELSE (IF Contains(Head(lines), "?")
          THEN <<Card(Strip(Head(lines)), <<>>)>> ELSE <<>>)
         \o LineScan(Tail(lines))

\* lines 220-227: json.loads, and the line scan when it raises
ParseFlashcards(response) ==
    LET parsed == JsonLoads(response)
    IN  IF parsed.ok THEN parsed.v ELSE Arr(LineScan(Split(response, NL)))

\* `(body.get("topic") or "")`
OrEmpty(x) == IF Truthy(x) THEN x ELSE Str(<<>>)

\* the ctx of line 202 / 205
FlashContext(topic, matches) ==
    IF matches # <<>>
    THEN [i \in 1..Len(matches) |-> matches[i].metadata.text]
    ELSE <<[general_notes_about |-> topic]>>

\* lines 199-232 once the index has answered
FlashcardsAnswer(body, topic, result, response) ==
    LET ctx == FlashContext(topic, result.matches)
        calls == <<"embedder", "index", "generator">>
    IN  IF ~response.ok
        THEN Exchange("flashcards", body, result.matches, ctx, response, calls, 500,
                 [error |-> "exception"])
        ELSE Exchange("flashcards", body, result.matches, ctx, response, calls,
                 200, [flashcards |-> ParseFlashcards(response.text)])

flashcards(body, response) ==
    /\ LET raw == OrEmpty(Get(body, "topic", None))
           top_k == PyInt(Get(body, "top_k", Num(10)))
           student_id == Get(body, "student_id", None)
       IN  IF raw.t # "str" \/ ~top_k.ok
           THEN last' = Exchange("flashcards", body, <<>>, <<>>, NotCalled, <<>>, 500,
                            [error |-> "exception"])
           ELSE IF ~Truthy(student_id) \/ ~Truthy(Str(Strip(raw.v)))
           THEN last' = Exchange("flashcards", body, <<>>, <<>>, NotCalled, <<>>, 400,
                            [error |-> "student_id and topic are required"])
           ELSE \E result \in query_chunks(index, student_id.v, Strip(raw.v), top_k.v) :
                    last' = FlashcardsAnswer(body, Strip(raw.v), result, response)
    /\ UNCHANGED <<index, disk, nextId, up, uploads>>

(* ------------------------------- /health ------------------------------ *)
health ==
    /\ last' = Exchange("health", <<>>, <<>>, <<>>, NotCalled, <<>>, 200, [ok |-> TRUE])
    /\ UNCHANGED <<index, disk, nextId, up, uploads>>

(* ------------------------------- inputs ------------------------------- *)
File(filename, pages) == [t |-> "file", v |-> [filename |-> filename, pages |-> pages]]

PdfName == <<"n", ".", "p", "d", "f">>
ExeName == <<"n", ".", "e", "x", "e">>
\* a name secure_filename rewrites: "../n x.MD"
OddName == <<".", ".", "/", "n", " ", "x", ".", "M", "D">>

S1 == Str(<<"s">>)
S2 == Str(<<"t">>)

\* request.form.get("student_id") / request.files.get("file")
\* a document has a list of page lengths: 0 is an empty page, 900 a page of
\* one chunk, 1800 a page of two chunks
SomeFiles ==
    {None, File(ExeName, <<900>>), File(OddName, <<>>),
     File(PdfName, <<1800, 0, 900>>)}
FewFiles == {None, File(PdfName, <<0, 1800>>)}

Body(student_id, question, topic, top_k) ==
    [student_id |-> student_id, top_k |-> top_k, topic |-> topic,
     question |-> question]

TextQ == Str(<<"q">>)
TextPadded == Str(<<" ", "q", "q", NL>>)

\* well-formed bodies, and one of each kind of ill-formed body
FewAskBodies ==
    {Body(s, TextPadded, ABSENT, k) : s \in {S1, S2}, k \in {ABSENT, Num(1)}}
    \cup { Body(S1, None, ABSENT, ABSENT), Body(ABSENT, TextQ, ABSENT, Str(<<"x">>)),
           Body(Str(<<>>), TextQ, ABSENT, Str(<<" ", "2">>)) }
FewTopicBodies ==
    { Body(S1, ABSENT, TextPadded, ABSENT), Body(S1, ABSENT, TextQ, Num(0)),
      Body(S1, ABSENT, None, ABSENT), Body(None, ABSENT, TextQ, Str(<<"x">>)),
      Body(S1, ABSENT, Str(<<" ">>), Str(<<" ", "2">>)) }

Answers == {Returns(<<"A">>), Raises}

\* json.dumps of a list of cards, each a pair <<question, answer>>
Quoted(s) == <<"\"">> \o s \o <<"\"">>
DumpCard(c) ==
    <<"{">> \o Quoted(KeyQuestion) \o <<":", " ">> \o Quoted(c[1]) \o <<",", " ">>
            \o Quoted(KeyAnswer) \o <<":", " ">> \o Quoted(c[2]) \o <<"}">>
RECURSIVE DumpCards(_)
DumpCards(cards) ==
    IF cards = <<>> THEN <<>>
    ELSE IF Len(cards) = 1 THEN DumpCard(cards[1])
    ELSE DumpCard(cards[1]) \o <<",", " ">> \o DumpCards(Tail(cards))
Dumps(cards) == <<"[">> \o DumpCards(cards) \o <<"]">>

CardPairs == { <<<<"Q", "1", "?">>, <<"A", "1">>>>, <<<<"Q">>, <<>>>> }
CardLists == UNION {[1..k -> CardPairs] : k \in 0..2}

RawAlphabet == {"Q", "?", " ", NL, "1"}
RawTexts == UNION {[1..k -> RawAlphabet] : k \in 0..MaxRespLen}

\* texts that are JSON but no list of cards
OddJson ==
    { <<"n", "u", "l", "l">>, Quoted(<<"Q", "?">>), DumpCard(<<<<"Q">>, <<"A">>>>),
      <<"[", "1", ",", " ", "2", "]">>,
      <<"[", "{">> \o Quoted(KeyQuestion) \o <<":">> \o Quoted(<<"Q">>) \o <<"}", "]">> }
\* texts that look like JSON and are not
BrokenJson ==
    { <<"[">> \o DumpCard(<<<<"Q", "?">>, <<"A">>>>),
      <<"Q", "1", "?", " ", NL, " ", "1", NL, "Q", "?">> }

\* texts that are not JSON and that json.loads accepts
LenientTexts == { LitNaN, <<"[">> \o LitInfinity \o <<"]">> }

AllResponses ==
    {Raises} \cup {Returns(Dumps(c)) : c \in CardLists}
    \cup {Returns(x) : x \in RawTexts \cup OddJson \cup BrokenJson \cup LenientTexts}
FewResponses ==
    {Raises, Returns(Dumps(<<<<<<"Q">>, <<"A">>>>>>)), Returns(<<"Q", "?">>)}

(* ---------------------------- specifications --------------------------- *)
NextOver(Workers, StudentIds, Files, AskBodies, TopicBodies, Responses) ==
    \/ \E p \in Workers, student_id \in StudentIds, f \in Files :
           uploadBegin(p, student_id, f)
    \/ \E p \in Workers, outcome \in {"ok", "parser_fails", "embed_fails"} :
           uploadPage(p, outcome)
    \/ \E p \in Workers : uploadFinish(p)
    \/ \E body \in AskBodies, answer \in Answers : ask(body, answer)
    \/ \E body \in TopicBodies, summary \in Answers : summarize(body, summary)
    \/ \E body \in TopicBodies, response \in Responses : flashcards(body, response)
    \/ health

\* uploads by one worker after another for student S1, and questions by S1 and
\* by S2 (whose namespace stays empty) over what they stored
Next == NextOver({1}, {S1}, FewFiles, FewAskBodies, FewTopicBodies, FewResponses)
Spec == Init /\ [][Next]_vars

\* concurrent uploads of every document and filename
NextUpload ==
    \/ \E p \in Procs, student_id \in {S1, S2}, f \in SomeFiles :
           uploadBegin(p, student_id, f)
    \/ \E p \in Procs, outcome \in {"ok", "parser_fails", "embed_fails"} :
           uploadPage(p, outcome)
    \/ \E p \in Procs : uploadFinish(p)
SpecUpload == Init /\ [][NextUpload]_vars

\* every generator text on /flashcards
NextFlashcards ==
    \/ uploadBegin(1, S1, File(PdfName, <<900>>))
    \/ uploadPage(1, "ok")
    \/ uploadFinish(1)
    \/ \E response \in AllResponses :
           flashcards(Body(S1, ABSENT, TextQ, Num(1)), response)
SpecFlashcards == Init /\ [][NextFlashcards]_vars

(* ================================ claims =============================== *)
\* a field that is absent, null or empty
Missing(x) ==
    \/ x.t \in {"absent", "null"}
    \/ x.t = "str" /\ x.v = <<>>
    \/ x.t = "file" /\ x.v.filename = <<>>

RequiredField(endpoint) == IF endpoint = "ask" THEN "question" ELSE "topic"
QueryEndpoints == {"ask", "summarize", "flashcards"}
Called(calls, who) == \E i \in 1..Len(calls) : calls[i] = who
Count(calls, who) == Cardinality({i \in 1..Len(calls) : calls[i] = who})

\* C1: a request to /upload, /ask, /summarize or /flashcards whose student_id
\* or required field is absent, null or empty is answered 400 with an `error`
\* key, whatever its other fields hold, and no collaborator is called.
C1_MissingFieldIs400 ==
    /\ \A p \in Procs :
          (up[p].pc = "done"
              /\ (Missing(up[p].req.student_id) \/ Missing(up[p].req.file)))
          => (up[p].status = 400 /\ "error" \in DOMAIN up[p].body
                 /\ up[p].calls = <<>>)
    /\ (last.endpoint \in QueryEndpoints
           /\ (Missing(last.req.student_id)
                  \/ Missing(last.req[RequiredField(last.endpoint)])))
       => (last.status = 400 /\ "error" \in DOMAIN last.body /\ last.calls = <<>>)

\* C2: when the index answers a valid /ask or /summarize request with zero
\* matches, the response is the fixed "not found" one and the answer
\* generator is not called.
C2_ZeroMatchesFallback ==
    (last.endpoint \in {"ask", "summarize"} /\ Called(last.calls, "index")
        /\ last.matches = <<>>)
    => /\ last.status = 200
       /\ ~last.gen.called
       /\ ~Called(last.calls, "generator")
       /\ last.endpoint = "ask" =>
             (DOMAIN last.body = {"answer", "context_used"}
                 /\ last.body.answer = NOT_FOUND_ANSWER
                 /\ last.body.context_used = <<>>)
       /\ last.endpoint = "summarize" =>
             ("summary" \in DOMAIN last.body
                 /\ last.body.summary = NO_NOTES_SUMMARY)

\* an /ask of a student whose namespace holds vectors got no match back
C2_Witness ==
    /\ last.endpoint = "ask" /\ last.status = 200
    /\ Called(last.calls, "index") /\ last.matches = <<>>
    /\ \E r \in index : r.namespace = last.req.student_id.v

\* C3: a file whose extension is not .pdf, .docx, .txt or .md (any case) is
\* neither saved, nor parsed, nor upserted.
C3_OnlyAllowedExtensionsStored ==
    \A p \in Procs :
        (up[p].pc # "idle" /\ up[p].req.file.t = "file"
            /\ ~_allowed(up[p].req.file.v.filename))
        => /\ up[p].calls = <<>>
           /\ SavedPath(up[p].file_id, up[p].filename) \notin disk
           /\ \A r \in index : r.metadata.doc_id # up[p].file_id

\* the vector id reads "<doc_id>-<k>"
IdIs(id, doc_id, k) ==
    LET dash == RFind(id, "-")
    IN  /\ dash > 0 /\ dash < Len(id)
        /\ SubSeq(id, 1, dash - 1) = doc_id
        /\ \A i \in (dash + 1)..Len(id) : id[i] \in Digits
        /\ NatOfStr(SubSeq(id, dash + 1, Len(id))) = k

\* C4: the records accumulated for a document carry chunk_id 0, 1, ..., N-1
\* in the order the chunks were produced, across pages; each vector id is
\* "<doc_id>-<chunk_id>"; num_chunks is N, the number of records upserted.
C4_ChunkIdsContiguous ==
    \A p \in Procs :
        (up[p].pc \in {"pages", "done"} /\ up[p].file_id # <<>>)
        => LET v == up[p].vectors_to_upsert
               u == uploads[FileNo(p)]
           IN  /\ Len(v) = Len(u.chunks)
               /\ up[p].chunk_counter = Len(v)
               /\ \A i \in 1..Len(v) :
                     /\ v[i].metadata.chunk_id = i - 1
                     /\ v[i].metadata.doc_id = up[p].file_id
                     /\ v[i].metadata.text = Truncate(u.chunks[i], 1200)
                     /\ IdIs(v[i].id, up[p].file_id, i - 1)
               /\ up[p].status = 200 =>
                     /\ up[p].body.num_chunks = Len(v)
                     /\ u.records = v
                     /\ Cardinality({r \in index :
                            r.metadata.doc_id = up[p].file_id}) = Len(v)

\* a three-page document with an empty middle page was stored as 3 chunks
C4_Witness ==
    \E p \in Procs :
        /\ up[p].status = 200
        /\ up[p].req.file.v.pages = <<1800, 0, 900>>
        /\ up[p].body.num_chunks = 3

\* C5: after an upload by student S, an /ask by S that the index answers with
\* chunks of that upload cites, for every match and in the index's order, the
\* doc_id, filename and chunk_id written at upload.
C5_RoundTrip ==
    (last.endpoint = "ask" /\ last.status = 200)
    => LET cited == last.body.context_used
           m == last.matches
       IN  /\ Len(cited) = Len(m)
           /\ \A i \in 1..Len(m) :
                 \E n \in 1..Len(uploads) :
                    \E k \in 1..Len(uploads[n].records) :
                       /\ uploads[n].outcome = "done"
                       /\ uploads[n].namespace = last.req.student_id.v
                       /\ m[i].id = uploads[n].records[k].id
                       /\ m[i].metadata.text = Truncate(uploads[n].chunks[k], 1200)
                       /\ cited[i].doc_id = uploads[n].file_id
                       /\ cited[i].filename = uploads[n].filename
                       /\ cited[i].chunk_id = k - 1
                       /\ cited[i].score = m[i].score

\* the question's embedding equals a stored chunk's, and two chunks are cited
C5_Witness ==
    /\ last.endpoint = "ask" /\ last.status = 200
    /\ Len(last.matches) = 2
    /\ last.matches[1].score = NumVectors
    /\ Len(last.body.context_used) = 2

\* texts of the raw alphabet that are JSON: whitespace around a run of "1"
IsRawNumber(text) ==
    LET core == Strip(text)
    IN  core # <<>> /\ \A i \in 1..Len(core) : core[i] = "1"
NotJson(text) ==
    \/ text \in BrokenJson \cup LenientTexts
    \/ text \in RawTexts /\ ~IsRawNumber(text)

\* the cards the line scan is to give: the lines holding "?", in order
ExpectedScan(text) ==
    LET asked == SelectSeq(Split(text, NL), LAMBDA line : Contains(line, "?"))
    IN  [i \in 1..Len(asked) |-> Card(Strip(asked[i]), <<>>)]

\* C6: a generator text that is a JSON array of {question, answer} objects is
\* returned as that array; a text that is not JSON gives, with status 200, one
\* card per line holding a question mark, in line order, question the trimmed
\* line and answer empty.
C6_StrictThenFallback ==
    (last.endpoint = "flashcards" /\ last.gen.called /\ last.gen.ok)
    => /\ \A cards \in CardLists :
             last.gen.text = Dumps(cards) =>
                /\ last.status = 200
                /\ last.body.flashcards =
                      Arr([i \in 1..Len(cards) |-> Card(cards[i][1], cards[i][2])])
       /\ NotJson(last.gen.text) =>
             /\ last.status = 200
             /\ last.body.flashcards = Arr(ExpectedScan(last.gen.text))

\* What the handler does do: a serialised card list comes back as that list,
\* and every text json.loads rejects gives the line-scan cards with status 200.
FallbackWhenLoadsRaises ==
    (last.endpoint = "flashcards" /\ last.gen.called /\ last.gen.ok)
    => /\ last.status = 200
       /\ \A cards \in CardLists :
             last.gen.text = Dumps(cards) =>
                last.body.flashcards =
                   Arr([i \in 1..Len(cards) |-> Card(cards[i][1], cards[i][2])])
       /\ (NotJson(last.gen.text) /\ last.gen.text \notin LenientTexts) =>
             last.body.flashcards = Arr(ExpectedScan(last.gen.text))

IsCardList(val) ==
    /\ val.t = "arr"
    /\ \A i \in 1..Len(val.v) :
          val.v[i].t = "obj" /\ {KeyQuestion, KeyAnswer} \subseteq DOMAIN val.v[i].v

\* C7: a valid /flashcards request is answered either with a failure status
\* and an `error` key or with 200 and a list of {question, answer} objects.
C7_FlashcardsIsCardList ==
    (last.endpoint = "flashcards" /\ last.gen.called)
    => \/ last.status >= 400 /\ "error" \in DOMAIN last.body
       \/ last.status = 200 /\ IsCardList(last.body.flashcards)

\* C8: every 200 response of /summarize has `topic`, the trimmed requested
\* topic, and `summary`.
C8_SummarizeHasTopic ==
    (last.endpoint = "summarize" /\ last.status = 200)
    => /\ {"topic", "summary"} \subseteq DOMAIN last.body
       /\ last.body.topic = Strip(last.req.topic.v)

\* C9: an upload that has not finished, or that the parser or the embedder
\* aborted, has no vector in the index: an upload upserts at most once, as
\* its last call, after every page was parsed and embedded, into the
\* namespace of its student_id.
C9_NoPartialState ==
    /\ \A n \in 1..Len(uploads) :
          uploads[n].outcome # "done" =>
             \A r \in index : r.metadata.doc_id # uploads[n].file_id
    /\ \A r \in index :
          \E n \in 1..Len(uploads) :
             /\ uploads[n].file_id = r.metadata.doc_id
             /\ uploads[n].namespace = r.namespace
    /\ \A p \in Procs :
          \A i \in 1..Len(up[p].calls) :
             up[p].calls[i] = "upsert" =>
                /\ i = Len(up[p].calls)
                /\ up[p].pages = <<>>
                /\ Count(up[p].calls, "embedder") = Len(up[p].req.file.v.pages)

\* an upload failed on a later page, with chunks of earlier pages in its batch
C9_Witness ==
    \E p \in Procs :
        /\ up[p].pc = "done" /\ up[p].status = 500
        /\ up[p].page_no >= 1
        /\ up[p].vectors_to_upsert # <<>>
        /\ up[p].pages # <<>>

Stored(u) ==
    {[namespace |-> u.namespace, id |-> u.records[i].id,
      values |-> u.records[i].values, metadata |-> u.records[i].metadata] :
     i \in 1..Len(u.records)}

\* C10: however uploads interleave, different uploads have different document
\* ids, saved paths and vector ids, and the index holds exactly the records
\* of the uploads that finished, each as its upload wrote it.
C10_UploadsDisjoint ==
    /\ \A n, m \in 1..Len(uploads) :
          n # m =>
             /\ uploads[n].file_id # uploads[m].file_id
             /\ uploads[n].saved_path # uploads[m].saved_path
             /\ \A i \in 1..Len(uploads[n].records), j \in 1..Len(uploads[m].records) :
                   uploads[n].records[i].id # uploads[m].records[j].id
    /\ \A n \in 1..Len(uploads) : uploads[n].saved_path \in disk
    /\ index = UNION {Stored(uploads[n]) :
                         n \in {k \in 1..Len(uploads) : uploads[k].outcome = "done"}}

\* two uploads to one namespace overlapped in time and both stored chunks
C10_Witness ==
    \E n, m \in 1..Len(uploads) :
        /\ n # m
        /\ uploads[m].overlapped
        /\ uploads[n].namespace = uploads[m].namespace
        /\ uploads[n].outcome = "done" /\ uploads[m].outcome = "done"
        /\ uploads[n].records # <<>> /\ uploads[m].records # <<>>

====
